---- MODULE Spec2Model ----
(***************************************************************************)
(* Model of analyze_redactions.py: detection of opaque near-black          *)
(* rectangles, correlation with the glyph trace, the analysis report and   *)
(* the selective removal of the rectangles.                                *)
(*                                                                         *)
(* Numbers with a fractional part (colours, opacities, page coordinates)   *)
(* are kept in hundredths: 1.0 is 100, 0.05 is 5, 3.01 is 301.             *)
(*                                                                         *)
(* A page is its content stream: a sequence of operations, each a vector   *)
(* drawing or a text span.  The position of an operation in the stream     *)
(* (0-based) is its draw sequence number, shared by drawings and text.     *)
(***************************************************************************)
EXTENDS Integers, Sequences, FiniteSets, TLC

VARIABLES
    page,         \* pure-function specifications: the page under test
    fphase,       \* "init" | "detected" | "correlated"
    black_rects,  \* result of find_black_rects(page)
    hidden,       \* result of find_hidden_text(page, black_rects)
    degraded      \* TRUE iff page.get_texttrace() raised in find_hidden_text

fvars == <<page, fphase, black_rects, hidden, degraded>>

VARIABLES
    doc,            \* the input document on disk: a sequence of pages
    args,           \* parsed command line: [is_file, remove]
    pc,             \* position of the run
    handle,         \* "none" | "open" | "closed": the fitz document handle
    closes,         \* number of doc.close() calls
    pno,            \* page.number of the page the loop is at (0-based)
    cur,            \* remove_black_rects: black_rects of the current page
    mi,             \* remove_black_rects: candidates of cur already marked
    work,           \* the open document in memory: pages with their annotations
    report,         \* analyze_pdf: the report dict
    messages,       \* remove_black_rects: messages
    total_removed,  \* remove_black_rects: total_removed
    exc,            \* the exception being propagated, "none" if none
    outfile,        \* the output path on disk: [written, pages]
    stdout,         \* lines printed to stdout
    stderr,         \* lines printed to stderr
    status,         \* "running" | "ok" | "fail" | "crash": how the process ended
    log             \* what happened to each page: a sequence of events

cvars == <<doc, args, pc, handle, closes, pno, cur, mi, work, report, messages,
           total_removed, exc, outfile, stdout, stderr, status, log>>

VARIABLES
    variant,        \* 9 | 10: which download script runs
    files,          \* OUTPUT_DIR: path -> file
    files0,         \* OUTPUT_DIR when the script started
    di,             \* the loop index i, counted from 1 for START_INDEX
    success_count,  \* main: success_count
    failed,         \* main: failed
    requests,       \* the session.get calls made, in order
    dpc,            \* "loop" | "alt" | "done"
    altq            \* alternate extensions still to try for index di

dvars == <<variant, files, files0, di, success_count, failed, requests, dpc, altq>>

vars == <<fvars, cvars, dvars>>

(***************************************************************************)
(* Bounds                                                                  *)
(***************************************************************************)
MaxOps == 3        \* operations in the content stream of a page of SpecPage
MaxPages == 3      \* pages of a document of Spec
NumIndices == 2    \* indices START_INDEX..END_INDEX of SpecDownload

(***************************************************************************)
(* Program constants (hundredths)                                          *)
(***************************************************************************)
BLACK_TOLERANCE == 5
MIN_RECT_SIZE == 300
OPAQUE == 100

\* path.get("fill_opacity", 1) / path.get("seqno", -1): value of a missing key
Absent == -1000

(***************************************************************************)
(* fitz.Rect                                                               *)
(***************************************************************************)
Max(a, b) == IF a >= b THEN a ELSE b
Min(a, b) == IF a <= b THEN a ELSE b

Rect(x0, y0, x1, y1) == [x0 |-> x0, y0 |-> y0, x1 |-> x1, y1 |-> y1]

RectWidth(r) == Max(0, r.x1 - r.x0)
RectHeight(r) == Max(0, r.y1 - r.y0)

RectIsEmpty(r) == r.x0 >= r.x1 \/ r.y0 >= r.y1

\* Rect.intersects: both rectangles non-empty and their common part non-empty
RectIntersects(a, b) ==
    /\ ~RectIsEmpty(a)
    /\ ~RectIsEmpty(b)
    /\ ~RectIsEmpty(Rect(Max(a.x0, b.x0), Max(a.y0, b.y0),
                         Min(a.x1, b.x1), Min(a.y1, b.y1)))

(***************************************************************************)
(* Content-stream operations                                               *)
(***************************************************************************)
\* fill: <<>> is None, otherwise the colour components
NoFill == <<>>

DrawOp(type, opacity, fill, items) ==
    [kind |-> "draw", type |-> type, fill_opacity |-> opacity, fill |-> fill,
     items |-> items, chars |-> <<>>]

TextOp(chars) ==
    [kind |-> "text", type |-> "t", fill_opacity |-> Absent, fill |-> NoFill,
     items |-> <<>>, chars |-> chars]

RECURSIVE StreamSelect(_, _, _)
\* the operations of one kind, each tagged with its sequence number
StreamSelect(ops, kind, i) ==
    IF i > Len(ops) THEN <<>>
    ELSE IF ops[i].kind = kind
         THEN <<[op |-> ops[i], seqno |-> i - 1]>> \o StreamSelect(ops, kind, i + 1)
         ELSE StreamSelect(ops, kind, i + 1)

\* page.get_drawings(): the vector drawings in stream order
get_drawings(p) == StreamSelect(p.ops, "draw", 1)

\* page.get_texttrace(): the text spans in stream order
get_texttrace(p) == StreamSelect(p.ops, "text", 1)

(***************************************************************************)
(* _is_black_fill                                                          *)
(***************************************************************************)
\* the tolerance itself is not black
IsBlackFillStrict(fill) ==
    IF fill = NoFill THEN FALSE
    ELSE IF Len(fill) >= 3
         THEN /\ fill[1] < BLACK_TOLERANCE
              /\ fill[2] < BLACK_TOLERANCE
              /\ fill[3] < BLACK_TOLERANCE
         ELSE FALSE

_is_black_fill(fill) ==
    IF fill = NoFill THEN FALSE
    ELSE IF Len(fill) >= 3
         THEN /\ fill[1] <= BLACK_TOLERANCE
              /\ fill[2] <= BLACK_TOLERANCE
              /\ fill[3] <= BLACK_TOLERANCE
         ELSE FALSE

(***************************************************************************)
(* find_black_rects                                                        *)
(***************************************************************************)
\* path.get("type") == "s"
IsStrokeOnly(path) == path.op.type = "s"

\* an opacity of 0.99 passes for opaque
NotOpaqueLax(path) ==
    (IF path.op.fill_opacity = Absent THEN OPAQUE ELSE path.op.fill_opacity) < 99

\* path.get("fill_opacity", 1) != 1
NotOpaque(path) ==
    (IF path.op.fill_opacity = Absent THEN OPAQUE ELSE path.op.fill_opacity) # OPAQUE

\* a rectangle of exactly the minimum size passes
TooSmallStrict(rect) == RectWidth(rect) < MIN_RECT_SIZE \/ RectHeight(rect) < MIN_RECT_SIZE

\* rect.width <= MIN_RECT_SIZE or rect.height <= MIN_RECT_SIZE
TooSmall(rect) == RectWidth(rect) <= MIN_RECT_SIZE \/ RectHeight(rect) <= MIN_RECT_SIZE

\* isinstance(item, (list, tuple)) and len(item) >= 2 and item[0] == "re"
IsRectItem(item) == Len(item) >= 2 /\ item[1] = "re"

RECURSIVE ItemCandidates(_, _, _)
\* the inner loop over path["items"]
ItemCandidates(items, seqno, i) ==
    IF i > Len(items) THEN <<>>
    ELSE IF ~IsRectItem(items[i]) THEN ItemCandidates(items, seqno, i + 1)
    ELSE IF TooSmall(items[i][2]) THEN ItemCandidates(items, seqno, i + 1)
    ELSE <<[rect |-> items[i][2], seqno |-> seqno]>>
             \o ItemCandidates(items, seqno, i + 1)

RECURSIVE PathCandidates(_, _)
\* the outer loop over page.get_drawings()
PathCandidates(paths, i) ==
    IF i > Len(paths) THEN <<>>
    ELSE IF IsStrokeOnly(paths[i]) THEN PathCandidates(paths, i + 1)
    ELSE IF NotOpaque(paths[i]) THEN PathCandidates(paths, i + 1)
    ELSE IF ~_is_black_fill(paths[i].op.fill) THEN PathCandidates(paths, i + 1)
    ELSE ItemCandidates(paths[i].op.items, paths[i].seqno, 1)
             \o PathCandidates(paths, i + 1)

find_black_rects(p) == PathCandidates(get_drawings(p), 1)

(***************************************************************************)
(* find_hidden_text                                                        *)
(***************************************************************************)
\* chr(c) on the code points the model uses
Chr(c) ==
    CASE c = 97 -> "a"
      [] c = 55 -> "7"
      [] c = 32 -> " "
      [] c = 46 -> "."
      [] c = 45 -> "-"
      [] c = 95 -> "_"
      [] c = 33 -> "!"
      [] OTHER -> "\n"

\* str.isalnum on those characters
IsAlnum(ch) == ch \in {"a", "7"}

\* not (not ch.isalnum() and ch not in " .-_")
Retained(ch) == IsAlnum(ch) \/ ch \in {" ", ".", "-", "_"}

RECURSIVE SpanChars(_, _, _)
\* the inner loop over span["chars"]: (ch, bbox, seqno) of the retained glyphs
SpanChars(cs, seqno, i) ==
    IF i > Len(cs) THEN <<>>
    ELSE IF ~Retained(Chr(cs[i][1])) THEN SpanChars(cs, seqno, i + 1)
    ELSE <<[ch |-> Chr(cs[i][1]), bbox |-> cs[i][4], seqno |-> seqno]>>
             \o SpanChars(cs, seqno, i + 1)

RECURSIVE TraceChars(_, _)
\* the outer loop over the trace
TraceChars(trace, i) ==
    IF i > Len(trace) THEN <<>>
    ELSE SpanChars(trace[i].op.chars, trace[i].seqno, 1) \o TraceChars(trace, i + 1)

\* the draw order is not compared
IsCoveredAnyOrder(g, cand) == RectIntersects(g.bbox, cand.rect)

\* bbox.intersects(rect) and seqno < rect_seqno
IsCovered(g, cand) == RectIntersects(g.bbox, cand.rect) /\ g.seqno < cand.seqno

RECURSIVE Covered(_, _, _)
\* the list comprehension: characters of the covered glyphs, in list order
Covered(chars, cand, i) ==
    IF i > Len(chars) THEN <<>>
    ELSE IF IsCovered(chars[i], cand)
         THEN <<chars[i].ch>> \o Covered(chars, cand, i + 1)
         ELSE Covered(chars, cand, i + 1)

\* hidden_preview: None, or the joined characters
NonePreview == [isNone |-> TRUE, text |-> <<>>]
Preview(txt) == [isNone |-> FALSE, text |-> txt]

\* one result dict of find_hidden_text
HiddenEntry(chars, cand) ==
    [rect |-> cand.rect, seqno |-> cand.seqno,
     hidden_preview |-> IF Covered(chars, cand, 1) # <<>>
                        THEN Preview(Covered(chars, cand, 1))
                        ELSE NonePreview]

\* the early return when page.get_texttrace() raises
HiddenDegraded(rects) ==
    [i \in 1..Len(rects) |->
        [rect |-> rects[i].rect, seqno |-> rects[i].seqno, hidden_preview |-> NonePreview]]

\* find_hidden_text(page, black_rects); traceOK = FALSE: get_texttrace raised
find_hidden_text(p, rects, traceOK) ==
    IF ~traceOK THEN HiddenDegraded(rects)
    ELSE [i \in 1..Len(rects) |-> HiddenEntry(TraceChars(get_texttrace(p), 1), rects[i])]

(***************************************************************************)
(* The download scripts: files and responses                               *)
(***************************************************************************)
NO_IMAGES_PDF_SIZE_3KB_MIN == 2 * 1024
NO_IMAGES_PDF_SIZE_3KB_MAX == 4 * 1024
NO_IMAGES_PDF_SIZE_5KB_MIN == 4 * 1024
NO_IMAGES_PDF_SIZE_5KB_MAX == 6 * 1024
MIN_ALTERNATE_SIZE == 1024

Indices == 1..NumIndices
Exts == {".pdf", ".mp4", ".xlsx", ".m4a", ".csv"}
Paths == Indices \X Exts

NoFile == [present |-> FALSE, origin |-> "none", size |-> 0, phrase |-> FALSE]
OldFile == [present |-> TRUE, origin |-> "old", size |-> 3000, phrase |-> TRUE]
NewFile(size, phrase) ==
    [present |-> TRUE, origin |-> "new", size |-> size, phrase |-> phrase]

\* the variables of the download scripts, before a run
DlIdle ==
    /\ variant = 10
    /\ files = [p \in Paths |-> NoFile]
    /\ files0 = [p \in Paths |-> NoFile]
    /\ di = 1
    /\ success_count = 0
    /\ failed = <<>>
    /\ requests = <<>>
    /\ dpc = "loop"
    /\ altq = <<>>

(***************************************************************************)
(* Pages of the pure-function specification                                *)
(***************************************************************************)
RectA == Rect(10000, 10000, 20000, 12000)
RectB == Rect(10000, 20000, 20000, 22000)
RectW300 == Rect(0, 0, 300, 400)
RectH300 == Rect(0, 0, 400, 300)
RectMin == Rect(0, 0, 301, 301)

Black == <<0, 0, 0>>

ItemLists ==
    { <<<<"re", RectMin>>>>,
      <<<<"re", RectW300>>, <<"re", RectA>>, <<"re", RectH300>>>>,
      <<<<"l">>, <<"re", RectB>>, <<"qu", RectA>>>> }

DrawOps ==
    {DrawOp("f", OPAQUE, Black, its) : its \in ItemLists}
    \cup {DrawOp(t, o, Black, <<<<"re", RectA>>>>) :
              t \in {"f", "s"}, o \in {OPAQUE, 99, Absent}}
    \cup {DrawOp("fs", OPAQUE, f, <<<<"re", RectB>>>>) :
              f \in {<<5, 5, 5>>, <<6, 0, 0>>, <<0, 6, 0>>, <<0, 0, 6>>, <<0, 0>>, NoFill}}

\* glyph boxes: inside A, inside B, touching A's right edge, empty inside A
BoxInA == Rect(10000, 10500, 11000, 11500)
BoxInB == Rect(10000, 20500, 11000, 21500)
BoxTouchA == Rect(20000, 10500, 21000, 11500)
BoxEmptyInA == Rect(12000, 10500, 12000, 11500)

Glyph(c, b) == <<c, 0, 0, b>>

TextOps ==
    { TextOp(<<Glyph(97, BoxInA), Glyph(33, BoxInA), Glyph(55, BoxInB)>>),
      TextOp(<<Glyph(32, BoxTouchA), Glyph(46, BoxInA), Glyph(95, BoxEmptyInA)>>),
      TextOp(<<Glyph(45, BoxInB), Glyph(10, BoxInB), Glyph(97, BoxInA)>>) }

PageOps == DrawOps \cup TextOps

Streams(S, n) == UNION {[1..k -> S] : k \in 0..n}

FindPages == {[ops |-> s] : s \in Streams(PageOps, MaxOps)}

(***************************************************************************)
(* SpecPage: find_black_rects and find_hidden_text applied to one page     *)
(***************************************************************************)
EmptyReport == [pages |-> <<>>, total_black_rects |-> 0, full_text |-> <<>>]

\* the variables of the command-line run, before the run
CliIdle ==
    /\ args = [is_file |-> FALSE, remove |-> FALSE]
    /\ pc = "main"
    /\ handle = "none"
    /\ closes = 0
    /\ pno = 0
    /\ cur = <<>>
    /\ mi = 0
    /\ work = <<>>
    /\ report = EmptyReport
    /\ messages = <<>>
    /\ total_removed = 0
    /\ exc = "none"
    /\ outfile = [written |-> FALSE, pages |-> <<>>]
    /\ stdout = <<>>
    /\ stderr = <<>>
    /\ status = "running"
    /\ log = <<>>

InitPage ==
    /\ page \in FindPages
    /\ fphase = "init"
    /\ black_rects = <<>>
    /\ hidden = <<>>
    /\ degraded = FALSE
    /\ doc = <<>>
    /\ CliIdle
    /\ DlIdle

DoFindBlackRects ==
    /\ fphase = "init"
    /\ black_rects' = find_black_rects(page)
    /\ fphase' = "detected"
    /\ UNCHANGED <<page, hidden, degraded, cvars, dvars>>

DoFindHiddenText ==
    /\ fphase = "detected"
    /\ \E traceOK \in BOOLEAN :
          /\ hidden' = find_hidden_text(page, black_rects, traceOK)
          /\ degraded' = ~traceOK
    /\ fphase' = "correlated"
    /\ UNCHANGED <<page, black_rects, cvars, dvars>>

NextPage == DoFindBlackRects \/ DoFindHiddenText

SpecPage == InitPage /\ [][NextPage]_vars

(***************************************************************************)
(* The document model used by the command-line run                         *)
(***************************************************************************)
RECURSIVE GlyphText(_, _)
\* the characters of a span, unfiltered
GlyphText(cs, i) ==
    IF i > Len(cs) THEN <<>> ELSE <<Chr(cs[i][1])>> \o GlyphText(cs, i + 1)

RECURSIVE StreamText(_, _)
\* page.get_text(): the text of the page, in stream order
StreamText(ops, i) ==
    IF i > Len(ops) THEN <<>>
    ELSE IF ops[i].kind = "text"
         THEN GlyphText(ops[i].chars, 1) \o StreamText(ops, i + 1)
         ELSE StreamText(ops, i + 1)

get_text(p) == StreamText(p.ops, 1)

\* fitz.open(path): the pages of the file, no pending annotation
fitz_open(d) == [i \in 1..Len(d) |-> [ops |-> d[i].ops, annots |-> <<>>]]

\* page.add_redact_annot(rect, fill=False)
add_redact_annot(pg, rect) == [pg EXCEPT !.annots = Append(@, rect)]

\* graphics=PDF_REDACT_LINE_ART_REMOVE_IF_TOUCHED: a drawing goes when one of
\* its items touches a marked region
Touched(op, annots) ==
    /\ op.kind = "draw"
    /\ \E i \in 1..Len(op.items), a \in 1..Len(annots) :
          /\ Len(op.items[i]) >= 2
          /\ RectIntersects(op.items[i][2], annots[a])

\* text overlapping a marked region is removed with the line art
KeepOpNoText(op, annots) ==
    /\ ~Touched(op, annots)
    /\ ~(/\ op.kind = "text"
          /\ \E i \in 1..Len(op.chars), a \in 1..Len(annots) :
                RectIntersects(op.chars[i][4], annots[a]))

KeepOp(op, annots) == ~Touched(op, annots)

RECURSIVE KeptOps(_, _, _)
KeptOps(ops, annots, i) ==
    IF i > Len(ops) THEN <<>>
    ELSE IF KeepOp(ops[i], annots)
         THEN <<ops[i]>> \o KeptOps(ops, annots, i + 1)
         ELSE KeptOps(ops, annots, i + 1)

\* page.apply_redactions(images=NONE, graphics=REMOVE_IF_TOUCHED, text=NONE)
\* when it takes effect: touched line art goes, text and images stay
apply_redactions(pg) == [ops |-> KeptOps(pg.ops, pg.annots, 1), annots |-> <<>>]

Event(e, n) == [ev |-> e, page |-> n]
Line(k, n, t) == [kind |-> k, n |-> n, text |-> t]

(***************************************************************************)
(* main: argument check and dispatch (lines 172-186)                       *)
(***************************************************************************)
MainNotFound ==
    /\ pc = "main"
    /\ \E r \in BOOLEAN : args' = [is_file |-> FALSE, remove |-> r]
    /\ stderr' = Append(stderr, Line("file_not_found", 0, <<>>))
    /\ status' = "fail"
    /\ pc' = "exit"
    /\ UNCHANGED <<doc, handle, closes, pno, cur, mi, work, report, messages,
                   total_removed, exc, outfile, stdout, log, fvars, dvars>>

\* the path is not checked before dispatch
MainDispatchUnchecked ==
    /\ pc = "main"
    /\ \E f \in BOOLEAN, r \in BOOLEAN :
          /\ args' = [is_file |-> f, remove |-> r]
          /\ pc' = IF r THEN "rm_open" ELSE "an_open"
    /\ UNCHANGED <<doc, handle, closes, pno, cur, mi, work, report, messages,
                   total_removed, exc, outfile, stdout, stderr, status, log, fvars, dvars>>

MainDispatch ==
    /\ pc = "main"
    /\ \E r \in BOOLEAN :
          /\ args' = [is_file |-> TRUE, remove |-> r]
          /\ pc' = IF r THEN "rm_open" ELSE "an_open"
    /\ UNCHANGED <<doc, handle, closes, pno, cur, mi, work, report, messages,
                   total_removed, exc, outfile, stdout, stderr, status, log, fvars, dvars>>

(***************************************************************************)
(* analyze_pdf (lines 100-120)                                             *)
(***************************************************************************)
\* fitz.open and the initial report
AnOpen ==
    /\ pc = "an_open"
    /\ \E ok \in BOOLEAN :
          IF ok
          THEN /\ work' = fitz_open(doc)
               /\ handle' = "open"
               /\ pc' = "an_loop"
               /\ UNCHANGED <<exc, status>>
          ELSE /\ exc' = "open"
               /\ status' = "crash"
               /\ pc' = "exit"
               /\ UNCHANGED <<work, handle>>
    /\ report' = EmptyReport
    /\ pno' = 0
    /\ UNCHANGED <<doc, args, closes, cur, mi, messages, total_removed, outfile,
                   stdout, stderr, log, fvars, dvars>>

\* page.number is used as the page number, and every page is reported
AnalyzeStepZeroBased(rep, pg, n, traceOK) ==
    [pages |-> Append(rep.pages,
                      [page |-> n, black_rects |-> find_black_rects(pg),
                       hidden |-> find_hidden_text(pg, find_black_rects(pg), traceOK)]),
     total_black_rects |-> rep.total_black_rects + Len(find_black_rects(pg)),
     full_text |-> Append(rep.full_text, [page |-> n, text |-> get_text(pg)])]

\* the body of the loop on a page whose extractions succeed
AnalyzeStep(rep, pg, n, traceOK) ==
    LET rects == find_black_rects(pg)
        hid == IF rects # <<>> THEN find_hidden_text(pg, rects, traceOK) ELSE <<>>
        withText == [rep EXCEPT !.full_text =
                        Append(@, [page |-> n + 1, text |-> get_text(pg)])]
    IN  IF rects # <<>>
        THEN [withText EXCEPT
                 !.pages = Append(@, [page |-> n + 1, black_rects |-> rects,
                                      hidden |-> hid]),
                 !.total_black_rects = @ + Len(rects)]
        ELSE withText

\* one iteration of "for page in doc"
AnPage ==
    /\ pc = "an_loop"
    /\ pno < Len(work)
    /\ \E outcome \in {"ok", "get_drawings", "get_text"}, traceOK \in BOOLEAN :
          /\ (traceOK = FALSE) =>
                 (outcome # "get_drawings" /\ find_black_rects(work[pno + 1]) # <<>>)
          /\ IF outcome = "ok"
             THEN /\ report' = AnalyzeStep(report, work[pno + 1], pno, traceOK)
                  /\ log' = Append(log, Event(IF traceOK THEN "analysed"
                                                         ELSE "analysed_degraded", pno + 1))
                  /\ pno' = pno + 1
                  /\ UNCHANGED <<exc, pc>>
             ELSE /\ exc' = outcome
                  /\ log' = Append(log, Event("extract_failed", pno + 1))
                  /\ pc' = "an_finally"
                  /\ UNCHANGED <<report, pno>>
    /\ UNCHANGED <<doc, args, handle, closes, cur, mi, work, messages, total_removed,
                   outfile, stdout, stderr, status, fvars, dvars>>

\* the loop is exhausted
AnLoopEnd ==
    /\ pc = "an_loop"
    /\ pno >= Len(work)
    /\ pc' = "an_finally"
    /\ UNCHANGED <<doc, args, handle, closes, pno, cur, mi, work, report, messages,
                   total_removed, exc, outfile, stdout, stderr, status, log, fvars, dvars>>

\* the close is reached only when no exception is propagating
CloseOnSuccess(h, e) == IF e = "none" THEN "closed" ELSE h

\* finally: doc.close() runs whether or not an exception e is propagating
FinallyClose(h, e) == "closed"

\* finally: doc.close(); then return report, or the exception leaves main
AnFinally ==
    /\ pc = "an_finally"
    /\ handle' = FinallyClose(handle, exc)
    /\ closes' = IF FinallyClose(handle, exc) = "closed" THEN closes + 1 ELSE closes
    /\ IF exc = "none"
       THEN pc' = "an_return" /\ UNCHANGED status
       ELSE pc' = "exit" /\ status' = "crash"
    /\ UNCHANGED <<doc, args, pno, cur, mi, work, report, messages, total_removed,
                   exc, outfile, stdout, stderr, log, fvars, dvars>>

RECURSIVE RectLines(_, _)
\* lines 206-218: one line per rectangle of a reported page
RectLines(hid, n) ==
    IF hid = <<>> THEN <<>>
    ELSE <<Line(IF Head(hid).hidden_preview.isNone THEN "rect_no_text" ELSE "rect_text",
                n, Head(hid).hidden_preview.text)>> \o RectLines(Tail(hid), n)

RECURSIVE PageLines(_)
PageLines(pages) ==
    IF pages = <<>> THEN <<>>
    ELSE <<Line("page", Head(pages).page, <<>>)>>
             \o RectLines(Head(pages).hidden, Head(pages).page)
             \o PageLines(Tail(pages))

RECURSIVE TextLines(_)
\* lines 194-196 and 225-227
TextLines(ft) ==
    IF ft = <<>> THEN <<>>
    ELSE <<Line("page_text", Head(ft).page, Head(ft).text)>> \o TextLines(Tail(ft))

\* main prints the report (lines 186-231)
MainPrintReport ==
    /\ pc = "an_return"
    /\ stdout' = stdout \o <<Line("file", 0, <<>>)>> \o
          (IF report.pages = <<>>
           THEN <<Line("none_detected", 0, <<>>)>> \o TextLines(report.full_text)
           ELSE <<Line("total", report.total_black_rects, <<>>)>>
                    \o PageLines(report.pages)
                    \o TextLines(report.full_text)
                    \o <<Line("remove_hint", 0, <<>>)>>)
    /\ status' = "ok"
    /\ pc' = "exit"
    /\ UNCHANGED <<doc, args, handle, closes, pno, cur, mi, work, report, messages,
                   total_removed, exc, outfile, stderr, log, fvars, dvars>>

(***************************************************************************)
(* remove_black_rects (lines 123-153)                                      *)
(***************************************************************************)
\* fitz.open, messages = [], total_removed = 0
RmOpen ==
    /\ pc = "rm_open"
    /\ \E ok \in BOOLEAN :
          IF ok
          THEN /\ work' = fitz_open(doc)
               /\ handle' = "open"
               /\ pc' = "rm_loop"
               /\ UNCHANGED <<exc, status>>
          ELSE /\ exc' = "open"
               /\ status' = "crash"
               /\ pc' = "exit"
               /\ UNCHANGED <<work, handle>>
    /\ messages' = <<>>
    /\ total_removed' = 0
    /\ pno' = 0
    /\ UNCHANGED <<doc, args, closes, cur, mi, report, outfile, stdout, stderr,
                   log, fvars, dvars>>

\* where the loop goes after the page at n is done with
AfterPage(n) == n + 1

\* "for page in doc": black_rects = find_black_rects(page)
RmFind ==
    /\ pc = "rm_loop"
    /\ pno < Len(work)
    /\ \E ok \in BOOLEAN :
          IF ok
          THEN /\ cur' = find_black_rects(work[pno + 1])
               /\ mi' = 0
               /\ IF find_black_rects(work[pno + 1]) = <<>>
                  THEN /\ pno' = AfterPage(pno)
                       /\ pc' = "rm_loop"
                       /\ log' = Append(log, Event("no_candidates", pno + 1))
                  ELSE /\ pc' = "rm_mark"
                       /\ UNCHANGED <<pno, log>>
               /\ UNCHANGED exc
          ELSE /\ exc' = "get_drawings"
               /\ pc' = "rm_except"
               /\ log' = Append(log, Event("extract_failed", pno + 1))
               /\ UNCHANGED <<cur, mi, pno>>
    /\ UNCHANGED <<doc, args, handle, closes, work, report, messages, total_removed,
                   outfile, stdout, stderr, status, fvars, dvars>>

\* one iteration of "for rect, _seqno in black_rects"
RmMark ==
    /\ pc = "rm_mark"
    /\ mi < Len(cur)
    /\ work' = [work EXCEPT ![pno + 1] = add_redact_annot(@, cur[mi + 1].rect)]
    /\ total_removed' = total_removed + 1
    /\ mi' = mi + 1
    /\ log' = Append(log, Event("marked", pno + 1))
    /\ UNCHANGED <<doc, args, pc, handle, closes, pno, cur, report, messages, exc,
                   outfile, stdout, stderr, status, fvars, dvars>>

\* the message of line 147
PageWarning(n) == Line("page_warning", n + 1, <<>>)

\* "if black_rects": apply_redactions and the warning when it reports no effect
RmApply ==
    /\ pc = "rm_mark"
    /\ mi >= Len(cur)
    /\ \E applied \in BOOLEAN :
          IF applied
          THEN /\ work' = [work EXCEPT ![pno + 1] = apply_redactions(@)]
               /\ log' = Append(log, Event("applied", pno + 1))
               /\ UNCHANGED messages
          ELSE /\ messages' = Append(messages, PageWarning(pno))
               /\ log' = Append(log, Event("no_effect", pno + 1))
               /\ UNCHANGED work
    /\ pno' = AfterPage(pno)
    /\ pc' = "rm_loop"
    /\ UNCHANGED <<doc, args, handle, closes, cur, mi, report, total_removed, exc,
                   outfile, stdout, stderr, status, fvars, dvars>>

\* the save does not wait for the end of the page loop
RmSaveEarly ==
    /\ pc = "rm_loop"
    /\ outfile' = [written |-> TRUE, pages |-> work]
    /\ log' = Append(log, Event("saved", 0))
    /\ pc' = "rm_finally"
    /\ UNCHANGED <<doc, args, handle, closes, pno, cur, mi, work, report, messages,
                   total_removed, exc, stdout, stderr, status, fvars, dvars>>

\* doc.save(output_path, garbage=4, deflate=True)
RmSave ==
    /\ pc = "rm_loop"
    /\ pno >= Len(work)
    /\ \E ok \in BOOLEAN :
          IF ok
          THEN /\ outfile' = [written |-> TRUE, pages |-> work]
               /\ log' = Append(log, Event("saved", 0))
               /\ pc' = "rm_finally"
               /\ UNCHANGED exc
          ELSE /\ exc' = "save"
               /\ log' = Append(log, Event("save_failed", 0))
               /\ pc' = "rm_except"
               /\ UNCHANGED outfile
    /\ UNCHANGED <<doc, args, handle, closes, pno, cur, mi, work, report, messages,
                   total_removed, stdout, stderr, status, fvars, dvars>>

\* except Exception as e: messages.append(str(e))
RmExcept ==
    /\ pc = "rm_except"
    /\ messages' = Append(messages, Line("error", 0, <<exc>>))
    /\ exc' = "none"
    /\ pc' = "rm_finally"
    /\ UNCHANGED <<doc, args, handle, closes, pno, cur, mi, work, report,
                   total_removed, outfile, stdout, stderr, status, log, fvars, dvars>>

\* finally: doc.close(); return total_removed, messages
RmFinally ==
    /\ pc = "rm_finally"
    /\ handle' = FinallyClose(handle, exc)
    /\ closes' = IF FinallyClose(handle, exc) = "closed" THEN closes + 1 ELSE closes
    /\ pc' = "rm_return"
    /\ UNCHANGED <<doc, args, pno, cur, mi, work, report, messages, total_removed,
                   exc, outfile, stdout, stderr, status, log, fvars, dvars>>

\* main, lines 180-184: the messages to stderr, the count and the output path
\* to stdout, return
MainPrintRemoved ==
    /\ pc = "rm_return"
    /\ stderr' = stderr \o messages
    /\ stdout' = Append(stdout, Line("removed_saved", total_removed, <<>>))
    /\ status' = "ok"
    /\ pc' = "exit"
    /\ UNCHANGED <<doc, args, handle, closes, pno, cur, mi, work, report, messages,
                   total_removed, exc, outfile, log, fvars, dvars>>

(***************************************************************************)
(* Spec: one run of the command line on a document                         *)
(***************************************************************************)
CandA == DrawOp("f", OPAQUE, Black, <<<<"re", RectA>>>>)
CandAB == DrawOp("f", OPAQUE, Black, <<<<"re", RectA>>, <<"re", RectB>>>>)
Faint == DrawOp("f", 99, Black, <<<<"re", RectA>>>>)
Rule == DrawOp("f", OPAQUE, Black, <<<<"re", RectW300>>>>)
TextA == TextOp(<<Glyph(97, BoxInA), Glyph(33, BoxInA), Glyph(55, BoxInB)>>)

DocPage(ops) == [ops |-> ops, annots |-> <<>>]

\* pages: text only; text under a box; a compound box drawn before the text;
\* a translucent box and a thin rule, neither a candidate
DocPages ==
    { DocPage(<<TextA>>),
      DocPage(<<TextA, CandA>>),
      DocPage(<<CandAB, TextA>>),
      DocPage(<<Faint, TextA, Rule>>) }

Docs == UNION {[1..k -> DocPages] : k \in 1..MaxPages}

Init ==
    /\ doc \in Docs
    /\ CliIdle
    /\ DlIdle
    /\ page = [ops |-> <<>>]
    /\ fphase = "init"
    /\ black_rects = <<>>
    /\ hidden = <<>>
    /\ degraded = FALSE

Next ==
    \/ MainNotFound
    \/ MainDispatch
    \/ AnOpen
    \/ AnPage
    \/ AnLoopEnd
    \/ AnFinally
    \/ MainPrintReport
    \/ RmOpen
    \/ RmFind
    \/ RmMark
    \/ RmApply
    \/ RmSave
    \/ RmExcept
    \/ RmFinally
    \/ MainPrintRemoved

Spec == Init /\ [][Next]_vars

(***************************************************************************)
(* Properties                                                              *)
(***************************************************************************)
\* the glyphs of a page: <<position in the stream, position in the span>>
PageGlyphs(p) ==
    UNION {{<<k, j>> : j \in 1..Len(p.ops[k].chars)} : k \in 1..Len(p.ops)}

GlyphChar(p, g) == Chr(p.ops[g[1]].chars[g[2]][1])
GlyphBox(p, g) == p.ops[g[1]].chars[g[2]][4]
GlyphSeq(g) == g[1] - 1

\* G is retained, G.bbox intersects R.rect and G.seq < R.seq
Qualifies(p, g, R) ==
    /\ Retained(GlyphChar(p, g))
    /\ RectIntersects(GlyphBox(p, g), R.rect)
    /\ GlyphSeq(g) < R.seqno

\* extraction order
Before(g, h) == g[1] < h[1] \/ (g[1] = h[1] /\ g[2] <= h[2])

\* the characters of the qualifying glyphs in extraction order
ExpectedPreview(p, R) ==
    LET Q == {g \in PageGlyphs(p) : Qualifies(p, g, R)}
    IN  [i \in 1..Cardinality(Q) |->
            GlyphChar(p, CHOOSE g \in Q : Cardinality({h \in Q : Before(h, g)}) = i)]

C4_DegradedObservable ==
    (fphase = "correlated" /\ degraded /\ black_rects # <<>>) =>
        hidden # find_hidden_text([ops |-> <<>>], black_rects, TRUE)

\* C10: every candidate comes from a drawing that is not stroke-only and
\* whose fill opacity is exactly 1.
C10_OnlyOpaqueFills ==
    fphase # "init" =>
        \A i \in 1..Len(black_rects) :
            LET op == page.ops[black_rects[i].seqno + 1]
            IN  /\ op.kind = "draw"
                /\ op.type # "s"
                /\ op.fill_opacity \in {OPAQUE, Absent}

\* a page with a stroke-only black box, a black box of opacity 0.99 and a
\* candidate
C10_Witness ==
    /\ fphase = "detected"
    /\ black_rects # <<>>
    /\ \E k \in 1..Len(page.ops) :
          page.ops[k].type = "s" /\ page.ops[k].fill = Black
    /\ \E k \in 1..Len(page.ops) :
          page.ops[k].fill_opacity = 99 /\ page.ops[k].fill = Black

RECURSIVE AnalyzeFold(_, _, _)
\* analyze_pdf on a document whose extractions all succeed: the report returned
AnalyzeFold(rep, d, i) ==
    IF i > Len(d) THEN rep
    ELSE AnalyzeFold(AnalyzeStep(rep, d[i], i - 1, TRUE), d, i + 1)

analyze_pdf(d) == AnalyzeFold(EmptyReport, d, 1)

RECURSIVE CandidateCount(_, _)
\* the candidates of the pages i.. of a document
CandidateCount(d, i) ==
    IF i > Len(d) THEN 0 ELSE Len(find_black_rects(d[i])) + CandidateCount(d, i + 1)

HasEvent(e) == \E i \in 1..Len(log) : log[i].ev = e
HasPageEvent(e, n) == \E i \in 1..Len(log) : log[i].ev = e /\ log[i].page = n
Visited(n) == \E i \in 1..Len(log) : log[i].page = n

\* the call of analyze_pdf or remove_black_rects has ended
CallEnded == pc \in {"an_return", "rm_return"} \/ (pc = "exit" /\ handle # "none")

C3_PageFailureContinues ==
    (CallEnded /\ HasEvent("extract_failed")) =>
        /\ \A n \in 1..Len(doc) : Visited(n)
        /\ args.remove => HasEvent("saved") \/ HasEvent("save_failed")

\* C5: the handle is closed at most once, and exactly once when the call that
\* opened it has ended, whether by return or by exception.
C5_HandleReleased ==
    /\ closes <= 1
    /\ (handle = "closed") <=> (closes = 1)
    /\ CallEnded => (handle = "closed" /\ closes = 1)

\* analyze_pdf left by an exception raised on the second page
C5_Witness ==
    /\ pc = "exit"
    /\ status = "crash"
    /\ exc = "get_text"
    /\ HasPageEvent("extract_failed", 2)
    /\ closes = 1

\* C6: after a failed save the error is on stderr when the run ends, and no
\* line reporting a removed count with the output path is printed.
C6_SaveFailureTerminal ==
    HasEvent("save_failed") =>
        /\ \A i \in 1..Len(stdout) : stdout[i].kind # "removed_saved"
        /\ pc = "exit" => \E i \in 1..Len(stderr) : stderr[i] = Line("error", 0, <<"save">>)

\* the pages with candidates, as the page numbers 1..n in increasing order
RECURSIVE PagesWithCandidates(_, _)
PagesWithCandidates(d, i) ==
    IF i > Len(d) THEN <<>>
    ELSE IF find_black_rects(d[i]) # <<>>
         THEN <<i>> \o PagesWithCandidates(d, i + 1)
         ELSE PagesWithCandidates(d, i + 1)

\* C7: the report returned by analyze_pdf lists exactly the pages with
\* candidates, in page order under their 1-based numbers, has one full_text
\* entry per page in page order, and totals the candidates of all pages.
C7_ReportShape ==
    pc = "an_return" =>
        /\ [i \in 1..Len(report.pages) |-> report.pages[i].page]
              = PagesWithCandidates(doc, 1)
        /\ \A i \in 1..Len(report.pages) :
              /\ report.pages[i].black_rects = find_black_rects(doc[report.pages[i].page])
              /\ Len(report.pages[i].hidden) = Len(report.pages[i].black_rects)
        /\ [i \in 1..Len(report.full_text) |-> report.full_text[i].page]
              = [i \in 1..Len(doc) |-> i]
        /\ \A i \in 1..Len(report.full_text) :
              report.full_text[i].text = get_text(doc[i])
        /\ report.total_black_rects = CandidateCount(doc, 1)

\* a report of a document whose first page has no candidate and whose
\* second page has two
C7_Witness ==
    /\ pc = "an_return"
    /\ Len(doc) >= 2
    /\ find_black_rects(doc[1]) = <<>>
    /\ Len(report.pages) >= 1
    /\ report.pages[1].page = 2
    /\ report.total_black_rects >= 2

\* the candidates of the input that the written output no longer has
RemovedInOutput ==
    IF outfile.written
    THEN CandidateCount(doc, 1) - CandidateCount(outfile.pages, 1)
    ELSE 0

\* C8: the count returned by remove_black_rects, and printed by main, is the
\* number of candidates absent from the written output.
C8_CountIsRemoved ==
    /\ pc = "rm_return" => total_removed = RemovedInOutput
    /\ \A i \in 1..Len(stdout) :
          stdout[i].kind = "removed_saved" => stdout[i].n = RemovedInOutput

\* C9: when removal returns, every page whose application reported no effect
\* has exactly one warning naming it, every later page has been marked and
\* applied, and the save has been attempted.
C9_NoEffectContinues ==
    pc = "rm_return" =>
        \A n \in 1..Len(doc) :
            HasPageEvent("no_effect", n) =>
                /\ Cardinality({i \in 1..Len(messages) :
                                   messages[i] = Line("page_warning", n, <<>>)}) = 1
                /\ \A q \in (n + 1)..Len(doc) :
                      \/ HasPageEvent("no_candidates", q)
                      \/ /\ Cardinality({i \in 1..Len(log) :
                                            log[i] = Event("marked", q)})
                               = Len(find_black_rects(doc[q]))
                         /\ HasPageEvent("applied", q) \/ HasPageEvent("no_effect", q)
                /\ HasEvent("saved") \/ HasEvent("save_failed")

\* a drawing that is filled, fully opaque and near-black
OpaqueBlackFill(op) ==
    /\ op.kind = "draw"
    /\ op.type # "s"
    /\ op.fill_opacity \in {OPAQUE, Absent}
    /\ _is_black_fill(op.fill)

\* the rectangle sub-items of such drawings: <<position in the stream, item>>
BlackRectItems(p) ==
    UNION {{<<k, j>> : j \in {j \in 1..Len(p.ops[k].items) :
                                 /\ Len(p.ops[k].items[j]) >= 2
                                 /\ p.ops[k].items[j][1] = "re"}} :
           k \in {k \in 1..Len(p.ops) : OpaqueBlackFill(p.ops[k])}}

ItemRect(p, kj) == p.ops[kj[1]].items[kj[2]][2]

Emitted(rect, seqno) ==
    \E i \in 1..Len(black_rects) : black_rects[i] = [rect |-> rect, seqno |-> seqno]

\* C11: a rectangle sub-item of an opaque near-black fill is left out when its
\* width or its height is 3 or less, and is a candidate when both exceed 3.
C11_MinSizeBoundary ==
    fphase # "init" =>
        /\ \A kj \in BlackRectItems(page) :
              LET r == ItemRect(page, kj)
              IN  /\ (r.x1 - r.x0 <= 300 \/ r.y1 - r.y0 <= 300)
                        => ~Emitted(r, kj[1] - 1)
                  /\ (r.x1 - r.x0 > 300 /\ r.y1 - r.y0 > 300)
                        => Emitted(r, kj[1] - 1)
        /\ Len(black_rects) =
              Cardinality({kj \in BlackRectItems(page) :
                              /\ ItemRect(page, kj).x1 - ItemRect(page, kj).x0 > 300
                              /\ ItemRect(page, kj).y1 - ItemRect(page, kj).y0 > 300})

\* a page with rectangles of 3.0 by 4.0, 4.0 by 3.0 and 3.01 by 3.01, the last
\* one a candidate
C11_Witness ==
    /\ fphase = "detected"
    /\ \E kj \in BlackRectItems(page) : ItemRect(page, kj) = RectW300
    /\ \E kj \in BlackRectItems(page) : ItemRect(page, kj) = RectH300
    /\ \E i \in 1..Len(black_rects) : black_rects[i].rect = RectMin

\* a filled, fully opaque drawing with a rectangle above the minimum size
LargeOpaqueRect(op) ==
    /\ op.kind = "draw"
    /\ op.type # "s"
    /\ op.fill_opacity \in {OPAQUE, Absent}
    /\ \E j \in 1..Len(op.items) :
          /\ Len(op.items[j]) >= 2
          /\ op.items[j][1] = "re"
          /\ op.items[j][2].x1 - op.items[j][2].x0 > 300
          /\ op.items[j][2].y1 - op.items[j][2].y0 > 300

\* C12: such a drawing yields a candidate iff its fill is present and each of
\* its three components is at most 0.05.
C12_NearBlackBoundary ==
    fphase # "init" =>
        \A k \in 1..Len(page.ops) :
            LargeOpaqueRect(page.ops[k]) =>
                ((\E i \in 1..Len(black_rects) : black_rects[i].seqno = k - 1)
                   <=> (/\ page.ops[k].fill # <<>>
                        /\ Len(page.ops[k].fill) = 3
                        /\ \A c \in 1..3 : page.ops[k].fill[c] <= 5))

\* a page with fills (0.05, 0.05, 0.05), (0.06, 0, 0) and None, only the
\* first a candidate
C12_Witness ==
    /\ fphase = "detected"
    /\ Len(page.ops) = 3
    /\ page.ops[1].fill = <<5, 5, 5>>
    /\ page.ops[2].fill = <<6, 0, 0>>
    /\ page.ops[3].kind = "draw" /\ page.ops[3].fill = NoFill
    /\ Len(black_rects) = 1
    /\ black_rects[1].seqno = 0

\* C13: when the input path names no file, main prints the error, exits with
\* a failure status and has opened nothing, analysed or removed nothing and
\* written nothing.
C13_NotFoundIsFatal ==
    (pc # "main" /\ ~args.is_file) =>
        /\ pc = "exit"
        /\ status = "fail"
        /\ stderr = <<Line("file_not_found", 0, <<>>)>>
        /\ stdout = <<>>
        /\ handle = "none"
        /\ closes = 0
        /\ work = <<>>
        /\ report = EmptyReport
        /\ log = <<>>
        /\ total_removed = 0
        /\ ~outfile.written

\* a run with --remove on a missing path
C13_Witness ==
    /\ pc = "exit"
    /\ ~args.is_file
    /\ args.remove
    /\ status = "fail"

IsApply(e) == e.ev \in {"applied", "no_effect"}
IsSave(e) == e.ev \in {"saved", "save_failed"}

\* the marks of page n among the first i - 1 events
MarksBefore(n, i) == Cardinality({j \in 1..(i - 1) : log[j] = Event("marked", n)})

\* C14: a page is applied at most once, only after all its candidates (at
\* least one) are marked; the save is attempted at most once, after every
\* page is marked and applied, and is the last step taken on the document.
C14_RemovalOrder ==
    /\ \A i \in 1..Len(log) :
          IsApply(log[i]) =>
              /\ MarksBefore(log[i].page, i) = Len(find_black_rects(doc[log[i].page]))
              /\ MarksBefore(log[i].page, i) >= 1
              /\ \A j \in (i + 1)..Len(log) :
                    log[j].page = log[i].page => ~IsApply(log[j]) /\ log[j].ev # "marked"
    /\ \A i \in 1..Len(log) :
          IsSave(log[i]) =>
              /\ i = Len(log)
              /\ \A n \in 1..Len(doc) :
                    IF find_black_rects(doc[n]) = <<>>
                    THEN \E j \in 1..(i - 1) : log[j] = Event("no_candidates", n)
                    ELSE \E j \in 1..(i - 1) : IsApply(log[j]) /\ log[j].page = n
    /\ \A i \in 1..Len(log) :
          log[i].ev = "saved" => outfile = [written |-> TRUE, pages |-> work]

\* a removal that has saved a document of three pages, two of them with
\* candidates, one with two
C14_Witness ==
    /\ pc = "rm_return"
    /\ HasEvent("saved")
    /\ Len(doc) = 3
    /\ \E n \in 1..3 : Len(find_black_rects(doc[n])) = 2 /\ HasPageEvent("applied", n)
    /\ \E n \in 1..3 : Len(find_black_rects(doc[n])) = 1 /\ HasPageEvent("no_effect", n)
    /\ \E n \in 1..3 : HasPageEvent("no_candidates", n)

(***************************************************************************)
(* get_em_traunch_9.py / get_em_traunch_10.py: main download loop          *)
(***************************************************************************)
PdfMagic == <<"%", "P", "D", "F">>

\* the existence check is skipped
NeverExists(f) == FALSE

\* out_path.exists()
Exists(f) == f.present

\* first_chunk.startswith(b"%PDF")
StartsWithPdf(chunk) == Len(chunk) >= 4 /\ SubSeq(chunk, 1, 4) = PdfMagic

\* first chunks: a PDF header, an HTML page, a truncated header, no body
Chunks == {<<"%", "P", "D", "F", "-">>, <<"<", "h", "t", "m", "l">>, <<"%", "P", "D">>, <<>>}

\* what session.get(url) for a .pdf can bring: ok = no RequestException from
\* get / raise_for_status, complete = none while the body is streamed
PdfResponses ==
    {r \in [ok : BOOLEAN, first : Chunks, size : {3000, 5000}, phrase : BOOLEAN,
             complete : BOOLEAN] :
        /\ (~r.ok \/ ~StartsWithPdf(r.first) \/ ~r.complete)
              => (r.size = 3000 /\ ~r.phrase)
        /\ ~r.ok => (r.first = <<>> /\ ~r.complete)
        /\ (r.ok /\ ~StartsWithPdf(r.first)) => ~r.complete}

\* what session.get(url) for an alternate can bring; size = len(first)
AltResponses ==
    {r \in [ok : BOOLEAN, size : {1024, 1025}, complete : BOOLEAN] :
        /\ ~r.ok => (r.size = 1024 /\ ~r.complete)
        /\ r.size = 1024 => ~r.complete}

\* get_em_traunch_9: _is_no_images_stub_pdf; get_em_traunch_10: _no_images_stub_type
StubType(v, f) ==
    IF ~f.present THEN "none"
    ELSE IF ~f.phrase THEN "none"
    ELSE IF NO_IMAGES_PDF_SIZE_3KB_MIN <= f.size /\ f.size <= NO_IMAGES_PDF_SIZE_3KB_MAX
         THEN "3kb"
    ELSE IF v = 10 /\ NO_IMAGES_PDF_SIZE_5KB_MIN <= f.size
                  /\ f.size <= NO_IMAGES_PDF_SIZE_5KB_MAX
         THEN "5kb"
    ELSE "none"

\* the alternate extensions tried for a stub, in order
AltExts(t) ==
    IF t = "3kb" THEN <<".mp4">>
    ELSE IF t = "5kb" THEN <<".xlsx", ".m4a", ".csv", ".mp4">>
    ELSE <<>>

\* a GET that was sent; got is what the loop saw of a .pdf response ("error",
\* "other", "pdf"), and "alternate" for the GETs of _try_download_alternate
Request(path, got) == [path |-> path, got |-> got]

\* (time.time() - start) >= RUN_TIMEOUT_SECONDS: break, then the summary
DlTimeout ==
    /\ dpc = "loop"
    /\ di <= NumIndices
    /\ dpc' = "done"
    /\ UNCHANGED <<variant, files, files0, di, success_count, failed, requests, altq,
                   fvars, cvars>>

\* the range is exhausted, then the summary
DlLoopEnd ==
    /\ dpc = "loop"
    /\ di > NumIndices
    /\ dpc' = "done"
    /\ UNCHANGED <<variant, files, files0, di, success_count, failed, requests, altq,
                   fvars, cvars>>

\* if out_path.exists(): success_count += 1; continue
DlSkip ==
    /\ dpc = "loop"
    /\ di <= NumIndices
    /\ Exists(files[<<di, ".pdf">>])
    /\ success_count' = success_count + 1
    /\ di' = di + 1
    /\ UNCHANGED <<variant, files, files0, failed, requests, dpc, altq, fvars, cvars>>

\* the try block on the .pdf of index di
DlFetch ==
    /\ dpc = "loop"
    /\ di <= NumIndices
    /\ ~Exists(files[<<di, ".pdf">>])
    /\ \E r \in PdfResponses :
          /\ requests' = Append(requests,
                                Request(<<di, ".pdf">>,
                                        IF ~r.ok THEN "error"
                                        ELSE IF StartsWithPdf(r.first) THEN "pdf"
                                        ELSE "other"))
          /\ IF ~r.ok
             THEN /\ failed' = Append(failed, <<di, "error">>)
                  /\ di' = di + 1
                  /\ UNCHANGED <<files, success_count, dpc, altq>>
             ELSE IF ~StartsWithPdf(r.first)
             THEN /\ failed' = Append(failed, <<di, "not a PDF">>)
                  /\ di' = di + 1
                  /\ UNCHANGED <<files, success_count, dpc, altq>>
             ELSE IF ~r.complete
             THEN /\ files' = [files EXCEPT ![<<di, ".pdf">>] = NewFile(Len(r.first), FALSE)]
                  /\ failed' = Append(failed, <<di, "error">>)
                  /\ di' = di + 1
                  /\ UNCHANGED <<success_count, dpc, altq>>
             ELSE /\ files' = [files EXCEPT ![<<di, ".pdf">>] = NewFile(r.size, r.phrase)]
                  /\ success_count' = success_count + 1
                  /\ IF AltExts(StubType(variant, NewFile(r.size, r.phrase))) = <<>>
                     THEN di' = di + 1 /\ UNCHANGED <<dpc, altq>>
                     ELSE /\ altq' = AltExts(StubType(variant, NewFile(r.size, r.phrase)))
                          /\ dpc' = "alt"
                          /\ UNCHANGED di
                  /\ UNCHANGED failed
    /\ UNCHANGED <<variant, files0, fvars, cvars>>

\* _try_download_alternate (get_em_traunch_10), the .mp4 block (get_em_traunch_9)
DlAlternate ==
    /\ dpc = "alt"
    /\ altq # <<>>
    /\ IF Exists(files[<<di, Head(altq)>>])
       THEN /\ altq' = Tail(altq)
            /\ UNCHANGED <<files, requests>>
       ELSE \E r \in AltResponses :
               /\ requests' = Append(requests, Request(<<di, Head(altq)>>, "alternate"))
               /\ IF r.ok /\ r.size > MIN_ALTERNATE_SIZE
                  THEN /\ files' = [files EXCEPT ![<<di, Head(altq)>>] =
                                        NewFile(r.size, FALSE)]
                       /\ altq' = IF r.complete THEN <<>> ELSE Tail(altq)
                  ELSE /\ altq' = Tail(altq)
                       /\ UNCHANGED files
    /\ UNCHANGED <<variant, files0, di, success_count, failed, dpc, fvars, cvars>>

\* the alternates are done with: on to the next index
DlAltDone ==
    /\ dpc = "alt"
    /\ altq = <<>>
    /\ dpc' = "loop"
    /\ di' = di + 1
    /\ UNCHANGED <<variant, files, files0, success_count, failed, requests, altq,
                   fvars, cvars>>

\* files present before the run: any of the .pdf, and the .mp4 of the first index
InitialDirs ==
    {[p \in Paths |-> IF p \in S THEN OldFile ELSE NoFile] :
        S \in SUBSET ({<<i, ".pdf">> : i \in Indices} \cup {<<1, ".mp4">>})}

InitDownload ==
    /\ variant \in {9, 10}
    /\ files0 \in InitialDirs
    /\ files = files0
    /\ di = 1
    /\ success_count = 0
    /\ failed = <<>>
    /\ requests = <<>>
    /\ dpc = "loop"
    /\ altq = <<>>
    /\ page = [ops |-> <<>>]
    /\ fphase = "init"
    /\ black_rects = <<>>
    /\ hidden = <<>>
    /\ degraded = FALSE
    /\ doc = <<>>
    /\ CliIdle

NextDownload ==
    \/ DlTimeout
    \/ DlLoopEnd
    \/ DlSkip
    \/ DlFetch
    \/ DlAlternate
    \/ DlAltDone

SpecDownload == InitDownload /\ [][NextDownload]_vars

PdfPath(i) == <<i, ".pdf">>

\* the indices the loop has taken up so far
Processed == (di - 1) + (IF dpc = "alt" THEN 1 ELSE 0)

RequestsFor(p) == {k \in 1..Len(requests) : requests[k].path = p}

InFailed(e) == \E k \in 1..Len(failed) : failed[k] = e
FailedAt(i) == \E k \in 1..Len(failed) : failed[k][1] = i

\* C15: a .pdf is written only when it did not exist and the first chunk of
\* its response starts with %PDF; a file that existed is left as it was, is
\* not requested and counts as a success; a response that is not a PDF goes
\* to the failed list and writes nothing; success_count is the number of
\* indices skipped or fully downloaded, never more than those processed.
C15_DownloadSafety ==
    /\ \A p \in Paths :
          /\ files0[p].present => (files[p] = files0[p] /\ RequestsFor(p) = {})
          /\ Cardinality(RequestsFor(p)) <= 1
    /\ \A i \in Indices :
          files[PdfPath(i)].origin = "new" =>
              /\ ~files0[PdfPath(i)].present
              /\ i <= Processed
              /\ \E k \in RequestsFor(PdfPath(i)) : requests[k].got = "pdf"
    /\ \A k \in 1..Len(requests) :
          requests[k].got = "other" =>
              /\ InFailed(<<requests[k].path[1], "not a PDF">>)
              /\ ~files[requests[k].path].present
    /\ success_count =
          Cardinality({i \in 1..Processed : files0[PdfPath(i)].present})
          + Cardinality({i \in 1..Processed :
                            files[PdfPath(i)].origin = "new" /\ ~FailedAt(i)})
    /\ success_count <= Processed

\* a finished run: the first file existed and was skipped, the second
\* response was not a PDF
C15_Witness ==
    /\ dpc = "done"
    /\ di > NumIndices
    /\ files0[PdfPath(1)].present
    /\ RequestsFor(PdfPath(1)) = {}
    /\ InFailed(<<2, "not a PDF">>)
    /\ success_count = 1

====
